---- MODULE Spec2Model ----
(***************************************************************************)
(* A model of the SCUBA-2 integration time calculator (jcmt_itc_scuba2).   *)
(*                                                                         *)
(* The calculator is a Python object (SCUBA2ITC) holding a mode table, a   *)
(* tau-relation table and an overhead unit; its operations are pure        *)
(* computations that either return a value or raise an exception.          *)
(*                                                                         *)
(* Numbers.  Python floats are modelled by exact rationals <<n, d>> in     *)
(* lowest terms (d > 0).  Two functions of the code leave the rationals:   *)
(*   - sqrt: in _calculate_opacity its argument tau_225 is drawn from      *)
(*     perfect squares, so the root is exact; in                           *)
(*     _calculate_rms_for_time_on_source the quotient x / sqrt(y) is kept  *)
(*     as the exact pair [num |-> x, rad |-> y];                           *)
(*   - exp: the airmass is drawn from integer multiples of ln 2, so that   *)
(*     exp(-airmass * tau) = 2^(-k * tau) is a rational; the only float    *)
(*     effects kept are the underflow of exp to 0.0 and its overflow.      *)
(***************************************************************************)
EXTENDS Integers, Sequences, FiniteSets, TLC

VARIABLES itc, pc, call, result

vars == <<itc, pc, call, result>>

----------------------------------------------------------------------------
(* Exact rational arithmetic standing for Python's float arithmetic.       *)

Abs(x) == IF x < 0 THEN -x ELSE x

RECURSIVE GCD(_, _)
GCD(a, b) == IF b = 0 THEN a ELSE GCD(b, a % b)

Rat(n, d) ==
    LET g == GCD(Abs(n), Abs(d))
        s == IF d < 0 THEN -1 ELSE 1
    IN  <<(s * n) \div g, (s * d) \div g>>

R(i) == <<i, 1>>

RAdd(x, y) == Rat(x[1] * y[2] + y[1] * x[2], x[2] * y[2])

RSub(x, y) == Rat(x[1] * y[2] - y[1] * x[2], x[2] * y[2])

RMul(x, y) == Rat(x[1] * y[1], x[2] * y[2])

\* x / y for y # 0 (the callers raise ZeroDivisionError first)
RDiv(x, y) == Rat(x[1] * y[2], x[2] * y[1])

RNeg(x) == <<-x[1], x[2]>>

RIsZero(x) == x[1] = 0

RIsNeg(x) == x[1] < 0

\* math.ceil of a float: the least integer not below it
ceil(x) == -((-x[1]) \div x[2])

\* math.sqrt on the perfect squares the model draws
ISqrt(n) == CHOOSE s \in 0..n : s * s = n

sqrt(x) == <<ISqrt(x[1]), ISqrt(x[2])>>

RECURSIVE Pow2(_)
Pow2(n) == IF n = 0 THEN 1 ELSE 2 * Pow2(n - 1)

\* Python's None, and the outcome of a call: a returned value or a raised exception
None == [none |-> TRUE]

Ok(v) == [ok |-> TRUE, exc |-> "", msg |-> "", v |-> v]

Raise(exc, msg) == [ok |-> FALSE, exc |-> exc, msg |-> msg, v |-> None]

----------------------------------------------------------------------------
(* data.py: the tables.                                                     *)

ITCParam(tA, tB, c) == [tA |-> tA, tB |-> tB, c |-> c]

SCUBA2Mode(name, description, param_850, param_450, block_min, pix_850, pix_450, match_filt) ==
    [name |-> name, description |-> description,
     param_850 |-> param_850, param_450 |-> param_450, block_min |-> block_min,
     pix_850 |-> pix_850, pix_450 |-> pix_450, match_filt |-> match_filt]

\* the OrderedDict scuba2_modes, as the sequence of its items in insertion order
scuba2_modes == <<
    SCUBA2Mode("daisy", "Daisy: ~3 arcmin map",
               ITCParam(R(189), R(-48), Rat(248312, 1000000)),
               ITCParam(R(689), R(-118), Rat(62124, 1000000)),
               40, Rat(65, 10), R(4), TRUE),
    SCUBA2Mode("pong900", "Pong 900: 15 arcmin map",
               ITCParam(R(407), R(-104), Rat(53870, 1000000)),
               ITCParam(R(1483), R(-254), Rat(13420, 1000000)),
               40, Rat(65, 10), R(4), TRUE),
    SCUBA2Mode("pong1800", "Pong 1800: 30 arcmin map",
               ITCParam(R(795), R(-203), Rat(14113, 1000000)),
               ITCParam(R(2904), R(-497), Rat(3500, 1000000)),
               40, Rat(65, 10), R(4), TRUE),
    SCUBA2Mode("pong3600", "Pong 3600: 1 degree map",
               ITCParam(R(1675), R(-428), Rat(3180, 1000000)),
               ITCParam(R(6317), R(-1082), Rat(550, 1000000)),
               40, Rat(65, 10), R(4), TRUE),
    SCUBA2Mode("pong7200", "Pong 7200: 2 degree map",
               ITCParam(R(3354), R(-857), Rat(794, 1000000)),
               ITCParam(R(12837), R(-2200), Rat(17919, 100000000)),
               40, Rat(65, 10), R(4), TRUE),
    SCUBA2Mode("poldaisy", "POL-2 daisy (~3 arcmin)",
               ITCParam(Rat(7632, 10), R(-64), None),
               ITCParam(Rat(46268, 10), Rat(-41154, 100), None),
               40, R(12), R(12), FALSE) >>

\* TauRelation = namedtuple('TauRelation', ('a', 'b')): a relation has no field c
scuba2_tau_relations ==
    (850 :> [a |-> Rat(46, 10), b |-> Rat(-435, 100000)]) @@
    (450 :> [a |-> R(26), b |-> Rat(-1196, 100000)])

\* the default of the constructor's overhead argument (seconds)
DefaultOverhead == 90

(* Tables a caller substitutes at construction ("mode_data", "tau_data"):   *)
(* small coefficients, so that the arithmetic stays within TLC's integers.  *)
(* "scan" has every field; "pol" has no coefficient c, like poldaisy;       *)
(* "single" has no timing parameters at 450; "still" has a zero block.      *)
mode_data == <<
    SCUBA2Mode("scan", "Scan map",
               ITCParam(R(3), R(-1), Rat(1, 2)), ITCParam(R(6), R(-2), Rat(1, 4)),
               1, Rat(65, 10), R(4), TRUE),
    SCUBA2Mode("pol", "Polarimeter scan",
               ITCParam(R(5), R(-1), None), ITCParam(R(7), R(-3), None),
               1, R(12), R(12), FALSE),
    SCUBA2Mode("single", "850 only",
               ITCParam(R(2), R(-1), Rat(1, 2)), None,
               2, Rat(65, 10), R(4), TRUE),
    SCUBA2Mode("still", "No block",
               ITCParam(R(3), R(-1), Rat(1, 2)), ITCParam(R(6), R(-2), Rat(1, 4)),
               0, Rat(65, 10), R(4), TRUE) >>

\* tau relations with the field c: one with a sqrt term and a linear one (c = 0)
tau_data ==
    (850 :> [a |-> R(2), b |-> R(0), c |-> R(-2)]) @@
    (450 :> [a |-> R(2), b |-> R(1), c |-> R(0)])

----------------------------------------------------------------------------
(* itc.py: the messages of SCUBA2ITCError.                                  *)

UnknownMode == "Unknown SCUBA-2 observing mode"

UnknownFilter == "Unknown SCUBA-2 filter"

ParamUnavailable == "Timing parameters are not available for this observing mode and wavelength."

DivisionByZero == "Division by zero error occurred during calculation."

NegativeSqrt == "Negative square root error occurred during calculation."

----------------------------------------------------------------------------
(* itc.py: the private methods.  self is the record [data, tau_relations,  *)
(* overhead] the constructor builds.                                        *)

ZeroDivisionError == Raise("ZeroDivisionError", "float division by zero")

MathDomainError == Raise("ValueError", "math domain error")

KeyError == Raise("KeyError", "")

\* dict.get(mode): the mode's entry, or None
Get(data, mode) ==
    IF \E i \in 1..Len(data) : data[i].name = mode
    THEN data[CHOOSE i \in 1..Len(data) : data[i].name = mode]
    ELSE None

\* as _get_param, but refusing an entry whose coefficient c is None
_get_param_needs_c(self, mode, filter_) ==
    LET mode_info == Get(self.data, mode)
    IN  IF mode_info = None THEN Raise("SCUBA2ITCError", UnknownMode)
        ELSE IF filter_ \notin {850, 450} THEN Raise("SCUBA2ITCError", UnknownFilter)
        ELSE LET param == IF filter_ = 850 THEN mode_info.param_850
                          ELSE mode_info.param_450
             IN  IF param = None \/ param.c = None
                 THEN Raise("SCUBA2ITCError", ParamUnavailable)
                 ELSE Ok(param)

_get_param(self, mode, filter_) ==
    LET mode_info == Get(self.data, mode)
    IN  IF mode_info = None THEN Raise("SCUBA2ITCError", UnknownMode)
        ELSE IF filter_ \notin {850, 450} THEN Raise("SCUBA2ITCError", UnknownFilter)
        ELSE LET param == IF filter_ = 850 THEN mode_info.param_850
                          ELSE mode_info.param_450
             IN  IF param = None THEN Raise("SCUBA2ITCError", ParamUnavailable)
                 ELSE Ok(param)

\* sqrttime = (param.tA / transmission + param.tB) / rms; sqrttime * sqrttime / factor
_calculate_time_on_source(self, mode, filter_, transmission, factor, rms) ==
    LET param == _get_param(self, mode, filter_)
    IN  IF ~param.ok THEN param
        ELSE IF RIsZero(transmission) THEN ZeroDivisionError
        ELSE IF RIsZero(rms) THEN ZeroDivisionError
        ELSE LET sqrttime == RDiv(RAdd(RDiv(param.v.tA, transmission), param.v.tB), rms)
             IN  IF RIsZero(factor) THEN ZeroDivisionError
                 ELSE Ok(RDiv(RMul(sqrttime, sqrttime), factor))

\* ((param.tA / transmission) + param.tB) / sqrt(factor * time), as the exact
\* pair [num, rad] standing for num / sqrt(rad)
_calculate_rms_for_time_on_source(self, mode, filter_, transmission, factor, time) ==
    LET param == _get_param(self, mode, filter_)
    IN  IF ~param.ok THEN param
        ELSE IF RIsZero(transmission) THEN ZeroDivisionError
        ELSE IF RIsNeg(RMul(factor, time)) THEN MathDomainError
        ELSE IF RIsZero(RMul(factor, time)) THEN ZeroDivisionError
        ELSE Ok([num |-> RAdd(RDiv(param.v.tA, transmission), param.v.tB),
                 rad |-> RMul(factor, time)])

\* tau_relation.a * (tau_225 + tau_relation.b + tau_relation.c * sqrt(tau_225)):
\* the attribute c is read before sqrt is called
_calculate_opacity(self, filter_, tau_225) ==
    IF filter_ \notin DOMAIN self.tau_relations
    THEN Raise("SCUBA2ITCError", UnknownFilter)
    ELSE LET tau_relation == self.tau_relations[filter_]
         IN  IF "c" \notin DOMAIN tau_relation
             THEN Raise("AttributeError", "'TauRelation' object has no attribute 'c'")
             ELSE IF RIsNeg(tau_225) THEN MathDomainError
             ELSE Ok(RMul(tau_relation.a,
                          RAdd(RAdd(tau_225, tau_relation.b),
                               RMul(tau_relation.c, sqrt(tau_225)))))

\* binary64: 2^e overflows from e = 1024 on and rounds to 0.0 from e = -1075 down
ExpOverflow == 1024

ExpUnderflow == -1075

\* exp(-1.0 * airmass * tau), the airmass being k * ln 2: 2^(-k * tau)
_calculate_transmission(airmass, tau) ==
    LET e == RNeg(RMul(R(airmass), tau))[1]
    IN  IF e >= ExpOverflow THEN Raise("OverflowError", "math range error")
        ELSE IF e <= ExpUnderflow THEN Ok(R(0))
        ELSE IF e >= 0 THEN Ok(R(Pow2(e)))
        ELSE Ok(<<1, Pow2(-e)>>)

\* the loop over (850, 450): tau, transmission and the first entries of extra
_calculate_opacity_and_transmission(self, tau_225, airmass) ==
    LET tau_850 == _calculate_opacity(self, 850, tau_225)
        trans_850 == _calculate_transmission(airmass, tau_850.v)
        tau_450 == _calculate_opacity(self, 450, tau_225)
        trans_450 == _calculate_transmission(airmass, tau_450.v)
    IN  IF ~tau_850.ok THEN tau_850
        ELSE IF ~trans_850.ok THEN trans_850
        ELSE IF ~tau_450.ok THEN tau_450
        ELSE IF ~trans_450.ok THEN trans_450
        ELSE Ok([tau |-> (850 :> tau_850.v) @@ (450 :> tau_450.v),
                 transmission |-> (850 :> trans_850.v) @@ (450 :> trans_450.v),
                 extra |-> ("tau_850" :> tau_850.v) @@ ("trans_850" :> trans_850.v) @@
                           ("tau_450" :> tau_450.v) @@ ("trans_450" :> trans_450.v)])

\* as _estimate_overhead, but counting blocks by floor(time / block_sec) + 1: a
\* further block is charged for an exact multiple
_estimate_overhead_floor(self, mode, time, from_total) ==
    LET mode_info == Get(self.data, mode)
    IN  IF mode_info = None THEN Raise("SCUBA2ITCError", UnknownMode)
        ELSE LET block_sec == mode_info.block_min * 60 +
                              (IF from_total THEN self.overhead ELSE 0)
             IN  IF block_sec = 0 THEN ZeroDivisionError
                 ELSE Ok(R(self.overhead *
                           (RDiv(time, R(block_sec))[1] \div RDiv(time, R(block_sec))[2] + 1)))

\* as _estimate_overhead, but with the block of from_total=False in both cases
_estimate_overhead_same_block(self, mode, time, from_total) ==
    LET mode_info == Get(self.data, mode)
    IN  IF mode_info = None THEN Raise("SCUBA2ITCError", UnknownMode)
        ELSE LET block_sec == mode_info.block_min * 60
             IN  IF block_sec = 0 THEN ZeroDivisionError
                 ELSE Ok(R(self.overhead * ceil(RDiv(time, R(block_sec)))))

\* self.overhead * ceil(time / block_sec)
_estimate_overhead(self, mode, time, from_total) ==
    LET mode_info == Get(self.data, mode)
    IN  IF mode_info = None THEN Raise("SCUBA2ITCError", UnknownMode)
        ELSE LET block_sec == mode_info.block_min * 60 +
                              (IF from_total THEN self.overhead ELSE 0)
             IN  IF block_sec = 0 THEN ZeroDivisionError
                 ELSE Ok(R(self.overhead * ceil(RDiv(time, R(block_sec)))))

----------------------------------------------------------------------------
(* itc.py: the public methods.  A method returns the bare scalar as the    *)
(* 1-tuple <<scalar>> and the pair (scalar, extra) as <<scalar, extra>>;   *)
(* the dictionary extra is a function on its keys.                          *)

\* the handlers "except ZeroDivisionError" and "except ValueError as e"
Except(r) ==
    IF r.ok THEN r
    ELSE IF r.exc = "ZeroDivisionError" THEN Raise("SCUBA2ITCError", DivisionByZero)
    ELSE IF r.exc = "ValueError" /\ r.msg = "math domain error"
         THEN Raise("SCUBA2ITCError", NegativeSqrt)
    ELSE r

\* "Ignore errors calculating the alternate filter RMS": the inner try, whose
\* bare except leaves extra as it was when the exception was raised
\* as alternate_filter_rms, but recording None as the rms on failure
alternate_filter_rms_none(self, mode, filter_, transmission, sampling_factors, time_src, extra) ==
    LET filter_alt == IF filter_ = 450 THEN 850 ELSE 450
        extra_wl == ("wl_alt" :> filter_alt) @@ extra
        rms_alt == IF filter_alt \notin DOMAIN sampling_factors THEN KeyError
                   ELSE _calculate_rms_for_time_on_source(
                            self, mode, filter_alt, transmission[filter_alt],
                            sampling_factors[filter_alt], time_src)
    IN  ("rms_alt" :> rms_alt.v) @@ extra_wl

alternate_filter_rms(self, mode, filter_, transmission, sampling_factors, time_src, extra) ==
    LET filter_alt == IF filter_ = 450 THEN 850 ELSE 450
        extra_wl == ("wl_alt" :> filter_alt) @@ extra
        rms_alt == IF filter_alt \notin DOMAIN sampling_factors THEN KeyError
                   ELSE _calculate_rms_for_time_on_source(
                            self, mode, filter_alt, transmission[filter_alt],
                            sampling_factors[filter_alt], time_src)
    IN  IF rms_alt.ok THEN ("rms_alt" :> rms_alt.v) @@ extra_wl ELSE extra_wl

calculate_total_time(self, mode, filter_, tau_225, airmass, sampling_factors, rms, with_extra_output) ==
    LET ot == _calculate_opacity_and_transmission(self, tau_225, airmass)
        transmission == ot.v.transmission
        time_src == IF filter_ \notin DOMAIN transmission THEN KeyError
                    ELSE IF filter_ \notin DOMAIN sampling_factors THEN KeyError
                    ELSE _calculate_time_on_source(
                             self, mode, filter_, transmission[filter_],
                             sampling_factors[filter_], rms)
        overhead == _estimate_overhead(self, mode, time_src.v, FALSE)
        time_tot == RAdd(time_src.v, overhead.v)
        extra == ("time_src" :> time_src.v) @@ ot.v.extra
    IN  Except(IF ~ot.ok THEN ot
               ELSE IF ~time_src.ok THEN time_src
               ELSE IF ~overhead.ok THEN overhead
               ELSE IF ~with_extra_output THEN Ok(<<time_tot>>)
               ELSE Ok(<<time_tot,
                         alternate_filter_rms(self, mode, filter_, transmission,
                                              sampling_factors, time_src.v, extra)>>))

calculate_rms_for_time_on_source(self, mode, filter_, tau_225, airmass, sampling_factors, time_src, with_extra_output) ==
    LET ot == _calculate_opacity_and_transmission(self, tau_225, airmass)
        transmission == ot.v.transmission
        rms == IF filter_ \notin DOMAIN transmission THEN KeyError
               ELSE IF filter_ \notin DOMAIN sampling_factors THEN KeyError
               ELSE _calculate_rms_for_time_on_source(
                        self, mode, filter_, transmission[filter_],
                        sampling_factors[filter_], time_src)
    IN  Except(IF ~ot.ok THEN ot
               ELSE IF ~rms.ok THEN rms
               ELSE IF ~with_extra_output THEN Ok(<<rms.v>>)
               ELSE Ok(<<rms.v,
                         alternate_filter_rms(self, mode, filter_, transmission,
                                              sampling_factors, time_src, ot.v.extra)>>))

\* as calculate_rms_for_total_time, but without extra['time_src'] = time_src
calculate_rms_for_total_time_no_time_src(self, mode, filter_, tau_225, airmass, sampling_factors, time_tot, with_extra_output) ==
    LET overhead == _estimate_overhead(self, mode, time_tot, TRUE)
        time_src == RSub(time_tot, overhead.v)
    IN  IF ~overhead.ok THEN overhead
        ELSE calculate_rms_for_time_on_source(
                 self, mode, filter_, tau_225, airmass, sampling_factors,
                 time_src, with_extra_output)

\* the overhead is estimated outside any try block
calculate_rms_for_total_time(self, mode, filter_, tau_225, airmass, sampling_factors, time_tot, with_extra_output) ==
    LET overhead == _estimate_overhead(self, mode, time_tot, TRUE)
        time_src == RSub(time_tot, overhead.v)
        res == calculate_rms_for_time_on_source(
                   self, mode, filter_, tau_225, airmass, sampling_factors,
                   time_src, with_extra_output)
    IN  IF ~overhead.ok THEN overhead
        ELSE IF ~res.ok THEN res
        ELSE IF with_extra_output
             THEN Ok(<<res.v[1], ("time_src" :> time_src) @@ res.v[2]>>)
             ELSE res

SCUBA2ModeSummary(description, pix_850, pix_450, match_filt) ==
    [description |-> description, pix_850 |-> pix_850, pix_450 |-> pix_450,
     match_filt |-> match_filt]

\* as get_modes, but losing the insertion order (the items come out reversed)
get_modes_reversed(self) ==
    [i \in 1..Len(self.data) |->
        <<self.data[Len(self.data) + 1 - i].name,
          SCUBA2ModeSummary(self.data[Len(self.data) + 1 - i].description,
                            self.data[Len(self.data) + 1 - i].pix_850,
                            self.data[Len(self.data) + 1 - i].pix_450,
                            self.data[Len(self.data) + 1 - i].match_filt)>>]

\* the OrderedDict of (mode, summary), as the sequence of its items
get_modes(self) ==
    [i \in 1..Len(self.data) |->
        <<self.data[i].name,
          SCUBA2ModeSummary(self.data[i].description, self.data[i].pix_850,
                            self.data[i].pix_450, self.data[i].match_filt)>>]

----------------------------------------------------------------------------
(* The calculator and its caller.  itc is the constructed object; pc is    *)
(* the caller's position; call and result are the call it made last and    *)
(* what came back.                                                          *)

\* SCUBA2ITC.__init__
SCUBA2ITC(mode_data_, tau_data_, overhead) ==
    [data |-> mode_data_, tau_relations |-> tau_data_, overhead |-> overhead]

\* the argument values the caller draws from
MaxRms == 2

MaxTicks == 250

TicksPerSecond == 2

ModeNames(self) == {self.data[i].name : i \in 1..Len(self.data)}

Modes(self) == ModeNames(self) \cup {"nomode"}

Filters == {850, 450, 600}

Tau225s == {-1, 0, 1}

Airmasses == {1, 600}

SamplingFactors ==
    { (850 :> 1) @@ (450 :> 1), (850 :> 4) @@ (450 :> 1), (850 :> 1) @@ (450 :> 0),
      (850 :> -1) @@ (450 :> 1), (850 :> 1) }

RmsTargets == 0..MaxRms

TimesOnSource == {-60, 0, 1, 60, 100}

TotalTimes == {0, 50, 90, 150, 151, 300}

Overheads == {0, DefaultOverhead}

OverheadUnits == {-30, 0, 30, DefaultOverhead}

\* times in ticks of a second up to MaxTicks, and the seconds around the first
\* two multiples of each mode's block
Times(self) ==
    {Rat(n, TicksPerSecond) : n \in 0..MaxTicks} \cup
    {R(self.data[i].block_min * 60 * m + d) :
        i \in 1..Len(self.data), m \in 1..2, d \in {-1, 0, 1}}

Factors(sampling_factors) == [f \in DOMAIN sampling_factors |-> R(sampling_factors[f])]

NoCall ==
    [op |-> "", mode |-> "", filter_ |-> 0, tau_225 |-> 0, airmass |-> 0,
     sampling_factors |-> <<>>, x |-> R(0), with_extra_output |-> FALSE,
     from_total |-> FALSE, time_src |-> R(0)]

Compute(op, mode, filter_, tau_225, airmass, sampling_factors, x, with_extra_output) ==
    [op |-> op, mode |-> mode, filter_ |-> filter_, tau_225 |-> tau_225,
     airmass |-> airmass, sampling_factors |-> sampling_factors, x |-> x,
     with_extra_output |-> with_extra_output, from_total |-> FALSE, time_src |-> R(0)]

(* The default calculator, and calculators built on the substituted mode    *)
(* table (the default table's coefficients, squared, leave TLC's integers). *)
Init ==
    /\ itc \in {SCUBA2ITC(scuba2_modes, scuba2_tau_relations, DefaultOverhead)} \cup
               {SCUBA2ITC(mode_data, t, o) :
                    t \in {scuba2_tau_relations, tau_data}, o \in Overheads}
    /\ pc = "ready"
    /\ call = NoCall
    /\ result = Ok(None)

CalculateTotalTime ==
    /\ pc = "ready"
    /\ \E mode \in Modes(itc), filter_ \in Filters, tau_225 \in Tau225s,
          airmass \in Airmasses, sampling_factors \in SamplingFactors,
          rms \in RmsTargets, with_extra_output \in BOOLEAN :
          /\ call' = Compute("calculate_total_time", mode, filter_, tau_225, airmass,
                             sampling_factors, R(rms), with_extra_output)
          /\ result' = calculate_total_time(itc, mode, filter_, R(tau_225), airmass,
                                            Factors(sampling_factors), R(rms),
                                            with_extra_output)
    /\ pc' = "returned"
    /\ UNCHANGED itc

CalculateRmsForTotalTime ==
    /\ pc = "ready"
    /\ \E mode \in Modes(itc), filter_ \in Filters, tau_225 \in Tau225s,
          airmass \in Airmasses, sampling_factors \in SamplingFactors,
          time_tot \in TotalTimes, with_extra_output \in BOOLEAN :
          /\ call' = Compute("calculate_rms_for_total_time", mode, filter_, tau_225,
                             airmass, sampling_factors, R(time_tot), with_extra_output)
          /\ result' = calculate_rms_for_total_time(
                           itc, mode, filter_, R(tau_225), airmass,
                           Factors(sampling_factors), R(time_tot), with_extra_output)
    /\ pc' = "returned"
    /\ UNCHANGED itc

CalculateRmsForTimeOnSource ==
    /\ pc = "ready"
    /\ \E mode \in Modes(itc), filter_ \in Filters, tau_225 \in Tau225s,
          airmass \in Airmasses, sampling_factors \in SamplingFactors,
          time_src \in TimesOnSource, with_extra_output \in BOOLEAN :
          /\ call' = Compute("calculate_rms_for_time_on_source", mode, filter_, tau_225,
                             airmass, sampling_factors, R(time_src), with_extra_output)
          /\ result' = calculate_rms_for_time_on_source(
                           itc, mode, filter_, R(tau_225), airmass,
                           Factors(sampling_factors), R(time_src), with_extra_output)
    /\ pc' = "returned"
    /\ UNCHANGED itc

\* a direct call of the opacity helper
CalculateOpacity ==
    /\ pc = "ready"
    /\ \E filter_ \in Filters, tau_225 \in Tau225s :
          /\ call' = [NoCall EXCEPT !.op = "_calculate_opacity", !.filter_ = filter_,
                                    !.tau_225 = tau_225]
          /\ result' = _calculate_opacity(itc, filter_, R(tau_225))
    /\ pc' = "returned"
    /\ UNCHANGED itc

\* a direct call of the parameter lookup
GetParam ==
    /\ pc = "ready"
    /\ \E mode \in Modes(itc), filter_ \in Filters :
          /\ call' = [NoCall EXCEPT !.op = "_get_param", !.mode = mode,
                                    !.filter_ = filter_]
          /\ result' = _get_param(itc, mode, filter_)
    /\ pc' = "returned"
    /\ UNCHANGED itc

GetModes ==
    /\ pc = "ready"
    /\ call' = [NoCall EXCEPT !.op = "get_modes"]
    /\ result' = Ok(get_modes(itc))
    /\ pc' = "returned"
    /\ UNCHANGED itc

\* the caller takes the outcome and goes on to its next call
NextCall ==
    /\ pc = "returned"
    /\ pc' = "ready"
    /\ call' = NoCall
    /\ result' = Ok(None)
    /\ UNCHANGED itc

Next ==
    \/ CalculateTotalTime
    \/ CalculateRmsForTotalTime
    \/ CalculateRmsForTimeOnSource
    \/ CalculateOpacity
    \/ GetParam
    \/ GetModes
    \/ NextCall

Spec == Init /\ [][Next]_vars

----------------------------------------------------------------------------
(* The overhead accounting on its own: direct calls of _estimate_overhead,  *)
(* and the two statements that add the overhead to a time on source and     *)
(* take it off a total time.                                                *)

InitOverhead ==
    /\ itc \in {SCUBA2ITC(d, scuba2_tau_relations, o) :
                    d \in {scuba2_modes, mode_data}, o \in OverheadUnits}
    /\ pc = "ready"
    /\ call = NoCall
    /\ result = Ok(None)

EstimateOverhead ==
    /\ pc = "ready"
    /\ \E mode \in Modes(itc), time \in Times(itc), from_total \in BOOLEAN :
          /\ call' = [NoCall EXCEPT !.op = "_estimate_overhead", !.mode = mode,
                                    !.x = time, !.from_total = from_total]
          /\ result' = _estimate_overhead(itc, mode, time, from_total)
    /\ pc' = "returned"
    /\ UNCHANGED itc

\* time_tot = time_src + self._estimate_overhead(mode, time_src)
AddOverhead ==
    /\ pc = "ready"
    /\ \E mode \in Modes(itc), time_src \in Times(itc) :
          LET overhead == _estimate_overhead(itc, mode, time_src, FALSE)
          IN  /\ call' = [NoCall EXCEPT !.op = "add_overhead", !.mode = mode,
                                        !.x = time_src]
              /\ result' = IF overhead.ok THEN Ok(RAdd(time_src, overhead.v))
                           ELSE Except(overhead)
    /\ pc' = "returned"
    /\ UNCHANGED itc

\* time_src = time_tot - self._estimate_overhead(mode, time_tot, from_total=True),
\* on the total time the caller just got
RecoverTimeOnSource ==
    /\ pc = "returned"
    /\ call.op = "add_overhead"
    /\ result.ok
    /\ LET overhead == _estimate_overhead(itc, call.mode, result.v, TRUE)
       IN  /\ call' = [call EXCEPT !.op = "recover_time_on_source", !.x = result.v,
                                   !.from_total = TRUE, !.time_src = call.x]
           /\ result' = IF overhead.ok THEN Ok(RSub(result.v, overhead.v))
                        ELSE overhead
    /\ UNCHANGED <<itc, pc>>

NextOverhead ==
    \/ EstimateOverhead
    \/ AddOverhead
    \/ RecoverTimeOnSource
    \/ NextCall

SpecOverhead == InitOverhead /\ [][NextOverhead]_vars

----------------------------------------------------------------------------
(* What the properties below read off a state.                              *)

RLess(x, y) == x[1] * y[2] < y[1] * x[2]

RLeq(x, y) == x[1] * y[2] <= y[1] * x[2]

PublicOps ==
    {"calculate_total_time", "calculate_rms_for_total_time",
     "calculate_rms_for_time_on_source"}

Returned(op) == pc = "returned" /\ call.op = op

ReturnedPublic == pc = "returned" /\ call.op \in PublicOps

KnownMode == call.mode \in ModeNames(itc)

Failed(msg) == ~result.ok /\ result.exc = "SCUBA2ITCError" /\ result.msg = msg

\* the timing parameter entry of the call's mode and filter (filter 850 or 450)
Entry ==
    IF call.filter_ = 850 THEN Get(itc.data, call.mode).param_850
    ELSE Get(itc.data, call.mode).param_450

\* the call of the state, made again without extra output
Plain ==
    IF call.op = "calculate_total_time"
    THEN calculate_total_time(itc, call.mode, call.filter_, R(call.tau_225),
                              call.airmass, Factors(call.sampling_factors), call.x, FALSE)
    ELSE IF call.op = "calculate_rms_for_total_time"
    THEN calculate_rms_for_total_time(itc, call.mode, call.filter_, R(call.tau_225),
                                      call.airmass, Factors(call.sampling_factors),
                                      call.x, FALSE)
    ELSE calculate_rms_for_time_on_source(itc, call.mode, call.filter_, R(call.tau_225),
                                          call.airmass, Factors(call.sampling_factors),
                                          call.x, FALSE)

Extra == result.v[2]

FilterAlt == IF call.filter_ = 450 THEN 850 ELSE 450

Trans(filter_) == IF filter_ = 850 THEN Extra["trans_850"] ELSE Extra["trans_450"]

\* the on-source time the primary result of a successful call was computed for
TimeUsed ==
    IF call.op = "calculate_total_time"
    THEN _calculate_time_on_source(itc, call.mode, call.filter_, Trans(call.filter_),
                                   R(call.sampling_factors[call.filter_]), call.x).v
    ELSE IF call.op = "calculate_rms_for_total_time"
    THEN RSub(call.x, _estimate_overhead(itc, call.mode, call.x, TRUE).v)
    ELSE call.x

\* the alternate filter's rms for that time, computed on its own
AltRms ==
    IF FilterAlt \notin DOMAIN call.sampling_factors THEN KeyError
    ELSE _calculate_rms_for_time_on_source(itc, call.mode, FilterAlt, Trans(FilterAlt),
                                           R(call.sampling_factors[FilterAlt]), TimeUsed)

----------------------------------------------------------------------------
C3_OpacityDefined ==
    (Returned("_calculate_opacity") /\ call.tau_225 >= 0) =>
    IF call.filter_ \in DOMAIN itc.tau_relations
    THEN LET rel == itc.tau_relations[call.filter_]
             c == IF "c" \in DOMAIN rel THEN rel.c ELSE R(0)
         IN  /\ result.ok
             /\ result.v = RMul(rel.a, RAdd(RAdd(R(call.tau_225), rel.b),
                                            RMul(c, sqrt(R(call.tau_225)))))
    ELSE Failed(UnknownFilter)

(* C4.  In each public operation taking a mode, a mode name that is not a    *)
(* key of the mode table makes the call raise the "unknown mode" error,      *)
(* whatever the other arguments are.                                         *)
C4_UnknownModeReported ==
    (ReturnedPublic /\ ~KnownMode) => Failed(UnknownMode)

(* C5.  In each public operation, a known mode with a band other than 450    *)
(* and 850 makes the call raise the "unknown band" error; no lookup          *)
(* exception escapes instead.                                                *)
C5_UnknownBandReported ==
    (ReturnedPublic /\ KnownMode /\ call.filter_ \notin {450, 850}) =>
    Failed(UnknownFilter)

(* C6, as claimed.  For a mode of the table and a band in {450, 850}: when   *)
(* the timing parameter entry is absent, or its coefficient c is absent,     *)
(* the lookup raises "parameters unavailable"; otherwise it returns the      *)
(* entry.                                                                    *)
C6_AbsentCoefficientRefused ==
    (Returned("_get_param") /\ KnownMode /\ call.filter_ \in {450, 850}) =>
    IF Entry = None \/ Entry.c = None THEN Failed(ParamUnavailable)
    ELSE result.ok /\ result.v = Entry

(* C6, amended.  For a mode of the table and a band in {450, 850}: the       *)
(* lookup raises "parameters unavailable" exactly when the timing            *)
(* parameter entry itself is absent, and otherwise returns the entry's       *)
(* (tA, tB, c), also when c is absent; a public computation whose entry is   *)
(* absent returns no value, and one raises "parameters unavailable" only     *)
(* for an absent entry.                                                      *)
C6_AbsentEntryRefused ==
    /\ (Returned("_get_param") /\ KnownMode /\ call.filter_ \in {450, 850}) =>
          IF Entry = None THEN Failed(ParamUnavailable)
          ELSE result.ok /\ result.v = Entry
    /\ (ReturnedPublic /\ KnownMode /\ call.filter_ \in {450, 850}) =>
          /\ Entry = None => ~result.ok
          /\ Failed(ParamUnavailable) => Entry = None

\* the default table's polarimetry mode: c is absent and the entry is returned
C6_Witness ==
    /\ Returned("_get_param") /\ itc.data = scuba2_modes
    /\ call.mode = "poldaisy" /\ call.filter_ = 450
    /\ result.ok /\ result.v.c = None /\ result.v.tA = Rat(46268, 10)

(* C7.  In each public operation, for a known mode and a supported band, no  *)
(* ZeroDivisionError or ValueError escapes: a zero denominator ends the     *)
(* call with the "division by zero" calculation error, in particular a       *)
(* zero rounding block length.                                               *)
C7_NoNumericExceptionEscapes ==
    (ReturnedPublic /\ KnownMode /\ call.filter_ \in {450, 850}) =>
    /\ result.exc \notin {"ZeroDivisionError", "ValueError"}
    /\ (call.op = "calculate_rms_for_total_time"
          /\ Get(itc.data, call.mode).block_min * 60 + itc.overhead = 0)
          => Failed(DivisionByZero)

(* C8.  With extra output requested, whenever the same call without extra    *)
(* output returns, the call returns the same primary scalar paired with a    *)
(* bundle; the bundle holds the rms of the other band (450 for 850, 850 for  *)
(* 450) for the same on-source time when that computation succeeds, and no   *)
(* alternate-band rms entry when it fails.                                   *)
C8_AlternateRmsBestEffort ==
    (ReturnedPublic /\ call.with_extra_output /\ Plain.ok) =>
    /\ result.ok
    /\ Len(result.v) = 2
    /\ result.v[1] = Plain.v[1]
    /\ Extra["wl_alt"] = FilterAlt
    /\ IF AltRms.ok
       THEN "rms_alt" \in DOMAIN Extra /\ Extra["rms_alt"] = AltRms.v
       ELSE "rms_alt" \notin DOMAIN Extra

\* 850 asked of a mode without timing parameters at 450: the total time comes
\* back, the bundle has no rms_alt
C8_Witness ==
    /\ Returned("calculate_total_time") /\ call.with_extra_output
    /\ call.mode = "single" /\ call.filter_ = 850
    /\ result.ok /\ RLess(R(0), result.v[1])
    /\ Extra["wl_alt"] = 450 /\ "rms_alt" \notin DOMAIN Extra

\* the keys of the opacities and transmissions, with the values computed for them
HasOpacities ==
    /\ {"tau_850", "tau_450", "trans_850", "trans_450"} \subseteq DOMAIN Extra
    /\ Extra["tau_850"] = _calculate_opacity(itc, 850, R(call.tau_225)).v
    /\ Extra["tau_450"] = _calculate_opacity(itc, 450, R(call.tau_225)).v
    /\ Extra["trans_850"] = _calculate_transmission(call.airmass, Extra["tau_850"]).v
    /\ Extra["trans_450"] = _calculate_transmission(call.airmass, Extra["tau_450"]).v

(* C9, as claimed.  In each public operation, a successful call with extra   *)
(* output returns a bundle with the opacity and the transmission at both     *)
(* bands and the on-source time, which is the time the primary result was    *)
(* computed for.                                                             *)
C9_BundleHasTimeOnSource ==
    (ReturnedPublic /\ call.with_extra_output /\ result.ok) =>
    /\ HasOpacities
    /\ "time_src" \in DOMAIN Extra
    /\ Extra["time_src"] = TimeUsed

(* C9, amended.  A successful call with extra output returns a bundle with   *)
(* the opacity and the transmission at both bands, whichever band was        *)
(* asked; the bundle of calculate_total_time and of                          *)
(* calculate_rms_for_total_time also holds the on-source time the primary    *)
(* result was computed for, and that of calculate_rms_for_time_on_source     *)
(* has no on-source time entry.                                              *)
C9_BundleContents ==
    (ReturnedPublic /\ call.with_extra_output /\ result.ok) =>
    /\ HasOpacities
    /\ IF call.op = "calculate_rms_for_time_on_source"
       THEN "time_src" \notin DOMAIN Extra
       ELSE /\ "time_src" \in DOMAIN Extra
            /\ Extra["time_src"] = TimeUsed
            /\ call.op = "calculate_total_time" =>
                  result.v[1] = RAdd(Extra["time_src"],
                                     _estimate_overhead(itc, call.mode,
                                                        Extra["time_src"], FALSE).v)
            /\ call.op = "calculate_rms_for_total_time" =>
                  result.v[1].rad = RMul(R(call.sampling_factors[call.filter_]),
                                         Extra["time_src"])

\* 450 asked for a total of 300 s with a 90 s overhead per 60 s block: 120 s on source
C9_Witness ==
    /\ Returned("calculate_rms_for_total_time") /\ call.with_extra_output
    /\ call.mode = "scan" /\ call.filter_ = 450 /\ call.x = R(300)
    /\ itc.overhead = DefaultOverhead
    /\ result.ok /\ Extra["time_src"] = R(120)
    /\ "tau_850" \in DOMAIN Extra /\ "trans_850" \in DOMAIN Extra

(* C10.  get_modes returns one entry per mode of the table, in the table's   *)
(* insertion order (daisy, pong900, pong1800, pong3600, pong7200, poldaisy   *)
(* for the default table), each the mode's description, pixel scales and     *)
(* match-filter flag unchanged; the table is as it was constructed.          *)
C10_ModesInOrder ==
    Returned("get_modes") =>
    /\ result.ok
    /\ Len(result.v) = Len(itc.data)
    /\ \A i \in 1..Len(itc.data) :
          /\ result.v[i][1] = itc.data[i].name
          /\ result.v[i][2].description = itc.data[i].description
          /\ result.v[i][2].pix_850 = itc.data[i].pix_850
          /\ result.v[i][2].pix_450 = itc.data[i].pix_450
          /\ result.v[i][2].match_filt = itc.data[i].match_filt
          /\ DOMAIN result.v[i][2] = {"description", "pix_850", "pix_450", "match_filt"}
    /\ itc.data \in {scuba2_modes, mode_data}
    /\ itc.data = scuba2_modes =>
          [i \in 1..Len(result.v) |-> result.v[i][1]] =
              <<"daisy", "pong900", "pong1800", "pong3600", "pong7200", "poldaisy">>

C10_Witness ==
    /\ Returned("get_modes") /\ itc.data = scuba2_modes
    /\ Len(result.v) = 6
    /\ result.v[1][1] = "daisy" /\ result.v[6][1] = "poldaisy"
    /\ result.v[6][2].pix_850 = R(12) /\ result.v[1][2].pix_850 = Rat(13, 2)

====
